---- MODULE Spec2Model ----
(***************************************************************************)
(* Model of the testnet faucet: the per-IP rate limiter                    *)
(* (src/src/rate_limiter.rs) and the claim handler with its inline         *)
(* transaction construction (src/src/main.rs).                             *)
(*                                                                         *)
(* Each HTTP request is served by one task (a "slot" r \in Requests); a    *)
(* slot that has answered can serve a new request.  A task is preempted    *)
(* only where the code can be: at mutex acquisition and at the two node    *)
(* calls it awaits.                                                        *)
(*                                                                         *)
(* Amounts are u64 in the code and keep their full width here: a value is  *)
(* three limbs in base 10^9 (see "arithmetic").  amount_per_claim is any   *)
(* u64 the configuration file holds.  The plain `+` and `-` of the code    *)
(* panic on overflow in a build with overflow checks and wrap in a build   *)
(* without; both outcomes are modelled.                                    *)
(***************************************************************************)
EXTENDS Integers, Sequences, FiniteSets, TLC

(* ------------------------------ bounds --------------------------------- *)

\* concurrent request tasks
NumRequests == 2

\* the clock stops advancing here
MaxTime == 3602

\* longest UTXO list the node returns in SpecSelect
MaxUtxos == 3

(* ------------------------- program constants --------------------------- *)

FEE_PER_INPUT_SOMPI == 2000

DUST_SOMPI == 1000

\* Config::default().claim_interval_seconds, the RateLimiter's interval
claim_interval_seconds == 3600

\* Config::default().amount_per_claim
DEFAULT_AMOUNT_PER_CLAIM == 100000000

\* HashMap::get returning None / a local that holds nothing yet
NoEntry == -1

Requests == 1..NumRequests

Identities == {"203.0.113.5", "198.51.100.7"}

ValidAddresses == {"kaspatest:qq0"}

Addresses == ValidAddresses \cup {"not-an-address"}

\* steps by which the clock is observed to advance: around half the cooldown
\* (SpecRL), or a whole cooldown (Spec)
TickSteps == {1799, 1800, 1801}

CoarseSteps == {claim_interval_seconds}

VARIABLES
    now,              \* the monotonic clock (Instant), in seconds
    claims,           \* RateLimiter.claims: identity -> Instant of last admission
    mutex_owner,      \* holder of RateLimiter.claims' Mutex, 0 when free
    amount_per_claim, \* AppState.amount_per_claim
    nodeUtxos,        \* the node's UTXO view for the faucet address
    nodeTxs,          \* transactions the node accepted
    nodeUp,           \* whether the node answers the calls it receives
    accepted,         \* per request: the node took its submit_transaction and
                      \* the call has not returned yet
    pc,               \* where each request task stands
    ip,               \* the request's peer address
    address,          \* the request's payload.address
    utxos,            \* submit_faucet_transaction: the fetched list
    built,            \* submit_faucet_transaction: selected, total_in, fee, change, tx
    response,         \* what the handler returned
    walletOps,        \* history: node / signer calls made for the request
    lastAdmit,        \* history: per identity, time of the last try_claim = true
    admitAt           \* history: per request, time its try_claim returned true

vars == <<now, claims, mutex_owner, amount_per_claim, nodeUtxos, nodeTxs, nodeUp,
          accepted, pc, ip, address, utxos, built, response, walletOps, lastAdmit, admitAt>>

rlVars == <<claims, mutex_owner>>
nodeVars == <<nodeUtxos, nodeTxs, nodeUp, accepted>>
reqVars == <<ip, address>>
txVars == <<utxos, built>>

(* ---------------------------- arithmetic ------------------------------- *)

\* A u64 is written as three limbs in base 10^9, most significant first:
\* <<h, m, l>> stands for h * 10^18 + m * 10^9 + l.  The top limb may exceed
\* a u64's range while a sum is being formed.
BASE == 1000000000

u64(n) == <<0, n \div BASE, n % BASE>>

ZERO == u64(0)

\* u64::MAX = 18446744073709551615
U64_MAX == <<18, 446744073, 709551615>>

\* 2^64
TWO_64 == <<18, 446744073, 709551616>>

\* `<` and `<=` on u64
lt(a, b) ==
    \/ a[1] < b[1]
    \/ a[1] = b[1] /\ a[2] < b[2]
    \/ a[1] = b[1] /\ a[2] = b[2] /\ a[3] < b[3]

le(a, b) == a = b \/ lt(a, b)

\* the mathematical sum, and the mathematical difference of a >= b
wide_add(a, b) ==
    LET l == a[3] + b[3]
        m == a[2] + b[2] + (l \div BASE)
    IN  <<a[1] + b[1] + (m \div BASE), m % BASE, l % BASE>>

wide_sub(a, b) ==
    LET l == a[3] - b[3]
        bl == IF l < 0 THEN 1 ELSE 0
        m == a[2] - b[2] - bl
        bm == IF m < 0 THEN 1 ELSE 0
    IN  <<a[1] - b[1] - bm, m + bm * BASE, l + bl * BASE>>

\* Where a value is used several times it is bound by a one-element set, so
\* that it is computed once: CHOOSE y \in {e(x) : x \in {v}} : TRUE is e(v).

\* what an arithmetic operator yields when the thread panics
Panic == <<>>

\* u64::saturating_add
saturating_add(a, b) ==
    CHOOSE y \in {IF lt(U64_MAX, s) THEN U64_MAX ELSE s : s \in {wide_add(a, b)}} : TRUE

\* u64 `+`: on overflow a build with overflow checks panics, one without
\* wraps
add_u64(a, b, overflow_checks) ==
    CHOOSE y \in
        { IF ~lt(U64_MAX, s) THEN s
          ELSE IF overflow_checks THEN Panic
          ELSE wide_sub(s, TWO_64) :
          s \in {wide_add(a, b)} } : TRUE

\* u64 `-`: on underflow a build with overflow checks panics, one without
\* wraps
sub_u64(a, b, overflow_checks) ==
    IF le(b, a) THEN wide_sub(a, b)
    ELSE IF overflow_checks THEN Panic
    ELSE wide_sub(wide_add(a, TWO_64), b)

(* ---------------------------- rate limiter ----------------------------- *)

\* Mutex::lock returns only when nobody holds the mutex
lock_available_unlocked(owner) == TRUE
lock_available(owner) == owner = 0

\* the early `return false`: an entry exists and is younger than interval
rate_limited_inclusive(c, i, t) == c[i] # NoEntry /\ t - c[i] <= claim_interval_seconds
rate_limited(c, i, t) == c[i] # NoEntry /\ t - c[i] < claim_interval_seconds

\* claims.insert(ip, Instant::now())
claims_insert_skipped(c, i, t) == c
claims_insert_fresh(c, i, t) == [j \in Identities |-> IF j = i THEN t ELSE NoEntry]
claims_insert(c, i, t) == [c EXCEPT ![i] = t]

(* --------------------------- claim handler ----------------------------- *)

\* payload.address.as_str().try_into(): Ok for a well-formed address
address_try_into_any(a) == TRUE
address_try_into(a) == a \in ValidAddresses

\* the handler after try_claim: return 429, or go on to the send
after_guard_fallthrough(admitted) == "fetch"
after_guard(admitted) == IF admitted THEN "fetch" ELSE "done"

\* a node call can return Ok to the awaiting handler only with the node's
\* answer; it can return Err with the node's refusal or when the client
\* gives the call up, whether the node answers or not. The handler awaits
\* the call with no timeout of its own: nothing obliges a call on a silent
\* node to return, and the task may stay parked at the await
node_call_returns(up, ok) == up \/ ~ok

\* where the handler's future can be dropped once the claim is admitted: at
\* the two node calls it awaits
cancellable(p) == p \in {"fetch", "submit"}

\* a dropped future runs no further
after_cancel_resumed(stage) == stage
after_cancel(stage) == "cancelled"

\* the handler when the send fails: map_err(..)? returns 500, with no retry
after_send_error_retry(stage) == stage
after_send_error(stage) == "done"

\* u64::to_string: the decimal digits, most significant first
RECURSIVE digits(_)
digits(n) == IF n < 10 THEN <<n>> ELSE Append(digits(n \div 10), n % 10)

\* a limb below the leading one prints as nine digits
pad9(n) ==
    LET d == digits(n)
    IN  [i \in 1..9 |-> IF i <= 9 - Len(d) THEN 0 ELSE d[i - (9 - Len(d))]]

to_string(a) ==
    IF a[1] > 0 THEN digits(a[1]) \o pad9(a[2]) \o pad9(a[3])
    ELSE IF a[2] > 0 THEN digits(a[2]) \o pad9(a[3])
    ELSE digits(a[3])

NoResponse ==
    [status |-> 0, error |-> "", have |-> ZERO, need |-> ZERO,
     transaction_id |-> <<>>, amount_kas |-> <<>>, next_claim_seconds |-> 0]

ErrResponse(code, err) == [NoResponse EXCEPT !.status = code, !.error = err]

FundsResponse(have, need) ==
    [NoResponse EXCEPT !.status = 500, !.error = "InsufficientFunds",
                       !.have = have, !.need = need]

\* the 200 body; amount_kas carries amount_per_claim as it is, in sompi
OkResponse(id, amount) ==
    [NoResponse EXCEPT !.status = 200, !.transaction_id = id,
                       !.amount_kas = to_string(amount),
                       !.next_claim_seconds = claim_interval_seconds]

(* ---------------------- transaction construction ----------------------- *)

\* the fee for n selected inputs, with headroom for the change output
fee_for_no_headroom(n) == u64(n * FEE_PER_INPUT_SOMPI)
fee_for_flat(n) == u64(2 * FEE_PER_INPUT_SOMPI)
fee_for(n) == u64((n + 1) * FEE_PER_INPUT_SOMPI)

\* the selection loop: push entries in the received order until the total
\* covers amount + fee
RECURSIVE select_loop(_, _, _, _)
select_loop(list, amount, selected, total_in) ==
    IF list = <<>> THEN [selected |-> selected, total_in |-> total_in]
    ELSE CHOOSE y \in
             { IF le(saturating_add(amount, fee_for(Len(st.sel))), st.tot)
               THEN [selected |-> st.sel, total_in |-> st.tot]
               ELSE select_loop(Tail(list), amount, st.sel, st.tot) :
               st \in {[sel |-> Append(selected, Head(list)),
                        tot |-> saturating_add(total_in, Head(list).amount)]} } : TRUE

select(list, amount) ==
    select_loop(list, amount, <<>>, ZERO)

\* the check after the loop
insufficient(total_in, amount, fee) == lt(total_in, saturating_add(amount, fee))

\* the `need` of the error message: a plain `amount + fee`
need_of(amount, fee, overflow_checks) == add_u64(amount, fee, overflow_checks)

\* change: a plain `total_in - amount - fee`, with dust folded into the fee
compute_change(total_in, amount, fee, overflow_checks) ==
    CHOOSE y \in
        { IF c = Panic THEN Panic
          ELSE IF lt(ZERO, c) /\ lt(c, u64(DUST_SOMPI)) THEN ZERO
          ELSE c :
          c \in { IF d = Panic THEN Panic ELSE sub_u64(d, fee, overflow_checks) :
                  d \in {sub_u64(total_in, amount, overflow_checks)} } } : TRUE

make_inputs(selected) ==
    [i \in 1..Len(selected) |->
        [previous_outpoint |-> selected[i].outpoint, signature_script |-> <<>>,
         sequence |-> i - 1, sig_op_count |-> 1]]

make_outputs(amount, change, destination) ==
    <<[value |-> amount, script |-> destination]>>
    \o (IF lt(ZERO, change) THEN <<[value |-> change, script |-> "faucet_address"]>>
        ELSE <<>>)

NoTx == [inputs |-> <<>>, outputs |-> <<>>]

NoBuild ==
    [selected_ok |-> FALSE, selected |-> <<>>, total_in |-> ZERO, fee |-> ZERO,
     change |-> ZERO, tx |-> NoTx]

\* the id the node returns for an accepted transaction
TxId(tx) == <<[i \in 1..Len(tx.inputs) |-> tx.inputs[i].previous_outpoint], tx.outputs>>

\* the node's list for the given amounts; the outpoint is the position
MkUtxos(amts) == [i \in 1..Len(amts) |-> [outpoint |-> i, amount |-> amts[i]]]

(* ------------------------------- Init ---------------------------------- *)

SpecUtxoLists ==
    { <<>>, <<u64(500000000), u64(400000000)>>, <<u64(60000000), u64(50000000)>>,
      <<u64(50000000)>> }

InitCommon ==
    /\ now = 0
    /\ claims = [i \in Identities |-> NoEntry]
    /\ mutex_owner = 0
    /\ nodeTxs = {}
    /\ accepted = [r \in Requests |-> FALSE]
    /\ pc = [r \in Requests |-> "idle"]
    /\ ip = [r \in Requests |-> "203.0.113.5"]
    /\ address = [r \in Requests |-> "kaspatest:qq0"]
    /\ utxos = [r \in Requests |-> <<>>]
    /\ built = [r \in Requests |-> NoBuild]
    /\ response = [r \in Requests |-> NoResponse]
    /\ walletOps = [r \in Requests |-> {}]
    /\ lastAdmit = [i \in Identities |-> NoEntry]
    /\ admitAt = [r \in Requests |-> NoEntry]

\* an amount_per_claim so close to u64::MAX that amount + fee exceeds it,
\* with a faucet that cannot pay it
TopAmount == wide_sub(U64_MAX, u64(1000))

TopConfig == <<TopAmount, <<u64(50000000)>>>>

\* the configured amount with the node's list
SpecConfigs ==
    {<<u64(DEFAULT_AMOUNT_PER_CLAIM), amts>> : amts \in SpecUtxoLists} \cup {TopConfig}

Init ==
    /\ InitCommon
    /\ nodeUp = TRUE
    /\ \E c \in SpecConfigs : amount_per_claim = c[1] /\ nodeUtxos = MkUtxos(c[2])

(* ------------------------------ actions -------------------------------- *)

\* the clock advances
Tick(d) ==
    /\ now + d <= MaxTime
    /\ now' = now + d
    /\ UNCHANGED <<rlVars, amount_per_claim, nodeVars, pc, reqVars, txVars, response,
                   walletOps, lastAdmit,
                   admitAt>>

\* claim_handler up to the rate-limit check: a request from peer i with
\* payload address a arrives and its address is parsed
Receive(r, i, a) ==
    /\ pc[r] \in {"idle", "done", "cancelled", "panicked"}
    /\ ip' = [ip EXCEPT ![r] = i]
    /\ address' = [address EXCEPT ![r] = a]
    /\ utxos' = [utxos EXCEPT ![r] = <<>>]
    /\ built' = [built EXCEPT ![r] = NoBuild]
    /\ walletOps' = [walletOps EXCEPT ![r] = {}]
    /\ IF address_try_into(a)
       THEN /\ pc' = [pc EXCEPT ![r] = "guard"]
            /\ response' = [response EXCEPT ![r] = NoResponse]
       ELSE /\ pc' = [pc EXCEPT ![r] = "done"]
            /\ response' = [response EXCEPT ![r] = ErrResponse(400, "InvalidAddress")]
    /\ admitAt' = [admitAt EXCEPT ![r] = NoEntry]
    /\ UNCHANGED <<now, rlVars, amount_per_claim, nodeVars, lastAdmit>>

\* try_claim, first half: take the mutex, look the identity up, and either
\* return false (releasing the mutex) or go on to the insert
TryClaimCheck(r) ==
    /\ pc[r] = "guard"
    /\ lock_available(mutex_owner)
    /\ IF rate_limited(claims, ip[r], now)
       THEN /\ pc' = [pc EXCEPT ![r] = after_guard(FALSE)]
            /\ response' = [response EXCEPT ![r] = ErrResponse(429, "RateLimited")]
            /\ UNCHANGED mutex_owner
       ELSE /\ pc' = [pc EXCEPT ![r] = "insert"]
            /\ mutex_owner' = r
            /\ UNCHANGED response
    /\ UNCHANGED <<now, claims, amount_per_claim, nodeVars, reqVars, txVars,
                   walletOps, lastAdmit,
                   admitAt>>

\* try_claim, second half: insert the current time, release the mutex,
\* return true
TryClaimInsert(r) ==
    /\ pc[r] = "insert"
    /\ claims' = claims_insert(claims, ip[r], now)
    /\ mutex_owner' = 0
    /\ pc' = [pc EXCEPT ![r] = after_guard(TRUE)]
    /\ lastAdmit' = [lastAdmit EXCEPT ![ip[r]] = now]
    /\ admitAt' = [admitAt EXCEPT ![r] = now]
    /\ UNCHANGED <<now, amount_per_claim, nodeVars, reqVars, txVars, response,
                   walletOps>>

\* submit_faucet_transaction: get_utxos_by_addresses answers (or fails), and
\* an empty list is refused
Fetch(r, ok) ==
    /\ pc[r] = "fetch"
    /\ node_call_returns(nodeUp, ok)
    /\ walletOps' = [walletOps EXCEPT ![r] = @ \cup {"fetch"}]
    /\ IF ~ok
       THEN /\ pc' = [pc EXCEPT ![r] = after_send_error("fetch")]
            /\ response' = [response EXCEPT ![r] = ErrResponse(500, "NodeUnavailable")]
            /\ UNCHANGED utxos
       ELSE IF nodeUtxos = <<>>
       THEN /\ pc' = [pc EXCEPT ![r] = after_send_error("fetch")]
            /\ response' = [response EXCEPT ![r] = ErrResponse(500, "NoUtxos")]
            /\ utxos' = [utxos EXCEPT ![r] = nodeUtxos]
       ELSE /\ pc' = [pc EXCEPT ![r] = "build"]
            /\ utxos' = [utxos EXCEPT ![r] = nodeUtxos]
            /\ UNCHANGED response
    /\ UNCHANGED <<now, rlVars, amount_per_claim, nodeVars, reqVars, built, lastAdmit,
                   admitAt>>

\* submit_faucet_transaction between the two node calls: select, check the
\* funds, compute the change, assemble and sign.  A task that panics in the
\* arithmetic ends there and answers nothing.  Each intermediate value is
\* computed once and bound.
Build(r, signed, overflow_checks) ==
    /\ pc[r] = "build"
    /\ \E s \in {select(utxos[r], amount_per_claim)} :
       \E fee \in {fee_for(Len(s.selected))} :
       LET partial == [NoBuild EXCEPT !.selected = s.selected,
                                      !.total_in = s.total_in, !.fee = fee]
       IN  IF insufficient(s.total_in, amount_per_claim, fee)
           THEN \E need \in {need_of(amount_per_claim, fee, overflow_checks)} :
                    /\ built' = [built EXCEPT ![r] = partial]
                    /\ UNCHANGED walletOps
                    /\ IF need = Panic
                       THEN /\ pc' = [pc EXCEPT ![r] = "panicked"]
                            /\ UNCHANGED response
                       ELSE /\ pc' = [pc EXCEPT ![r] = after_send_error("build")]
                            /\ response' = [response EXCEPT ![r] =
                                   FundsResponse(s.total_in, need)]
           ELSE \E change \in {compute_change(s.total_in, amount_per_claim, fee,
                                              overflow_checks)} :
                    IF change = Panic
                    THEN /\ pc' = [pc EXCEPT ![r] = "panicked"]
                         /\ built' = [built EXCEPT ![r] = partial]
                         /\ UNCHANGED <<response, walletOps>>
                    ELSE /\ built' = [built EXCEPT ![r] =
                                [selected_ok |-> TRUE, selected |-> s.selected,
                                 total_in |-> s.total_in, fee |-> fee,
                                 change |-> change,
                                 tx |-> [inputs |-> make_inputs(s.selected),
                                         outputs |-> make_outputs(amount_per_claim,
                                                         change, address[r])]]]
                         /\ walletOps' = [walletOps EXCEPT ![r] = @ \cup {"sign"}]
                         /\ IF signed
                            THEN /\ pc' = [pc EXCEPT ![r] = "submit"]
                                 /\ UNCHANGED response
                            ELSE /\ pc' = [pc EXCEPT ![r] = after_send_error("build")]
                                 /\ response' = [response EXCEPT ![r] =
                                        ErrResponse(500, "SigningFailure")]
    /\ UNCHANGED <<now, rlVars, amount_per_claim, nodeVars, reqVars, utxos, lastAdmit,
                   admitAt>>

\* the node behind submit_transaction takes the transaction the handler
\* sent; its answer has still to reach the handler
NodeAccept(r) ==
    /\ pc[r] = "submit"
    /\ nodeUp
    /\ ~accepted[r]
    /\ nodeTxs' = nodeTxs \cup {built[r].tx}
    /\ accepted' = [accepted EXCEPT ![r] = TRUE]
    /\ UNCHANGED <<now, rlVars, amount_per_claim, nodeUtxos, nodeUp, pc, reqVars,
                   txVars, response, walletOps, lastAdmit, admitAt>>

\* submit_transaction returns: Ok with the id of the transaction the node
\* took, or Err
Submit(r, ok) ==
    /\ pc[r] = "submit"
    /\ node_call_returns(nodeUp, ok)
    /\ ok => accepted[r]
    /\ walletOps' = [walletOps EXCEPT ![r] = @ \cup {"submit"}]
    /\ accepted' = [accepted EXCEPT ![r] = FALSE]
    /\ IF ok
       THEN /\ pc' = [pc EXCEPT ![r] = "done"]
            /\ response' = [response EXCEPT ![r] =
                   OkResponse(TxId(built[r].tx), amount_per_claim)]
       ELSE /\ pc' = [pc EXCEPT ![r] = after_send_error("submit")]
            /\ response' = [response EXCEPT ![r] = ErrResponse(500, "SubmissionFailure")]
    /\ UNCHANGED <<now, rlVars, amount_per_claim, nodeUtxos, nodeTxs, nodeUp, reqVars,
                   txVars, lastAdmit, admitAt>>

\* the caller disconnects and the server drops the handler's future at the
\* await it is parked at; the call it awaits has been made, and what the
\* node took before the drop stays with the node
Cancel(r) ==
    /\ cancellable(pc[r])
    /\ pc' = [pc EXCEPT ![r] = after_cancel(pc[r])]
    /\ walletOps' = [walletOps EXCEPT ![r] = @ \cup {pc[r]}]
    /\ accepted' = [accepted EXCEPT ![r] = FALSE]
    /\ UNCHANGED <<now, rlVars, amount_per_claim, nodeUtxos, nodeTxs, nodeUp, reqVars,
                   txVars, response, lastAdmit, admitAt>>

\* the node stops answering, or answers again; what it took it keeps
NodeToggle ==
    /\ nodeUp' = ~nodeUp
    /\ UNCHANGED <<now, rlVars, amount_per_claim, nodeUtxos, nodeTxs, accepted, pc,
                   reqVars, txVars, response, walletOps, lastAdmit, admitAt>>

Next ==
    \/ \E d \in CoarseSteps : Tick(d)
    \/ \E r \in Requests, i \in Identities, a \in Addresses : Receive(r, i, a)
    \/ \E r \in Requests : TryClaimCheck(r)
    \/ \E r \in Requests : TryClaimInsert(r)
    \/ \E r \in Requests, ok \in BOOLEAN : Fetch(r, ok)
    \/ \E r \in Requests, signed, overflow_checks \in BOOLEAN :
          Build(r, signed, overflow_checks)
    \/ \E r \in Requests : NodeAccept(r)
    \/ \E r \in Requests, ok \in BOOLEAN : Submit(r, ok)

Spec == Init /\ [][Next]_vars

(* The rate limiter under a fine clock: the faucet is unfunded, so an       *)
(* admitted request ends at the UTXO fetch.                                 *)

InitRL ==
    /\ InitCommon
    /\ nodeUp = TRUE
    /\ amount_per_claim = u64(DEFAULT_AMOUNT_PER_CLAIM)
    /\ nodeUtxos = <<>>

NextRL ==
    \/ \E d \in TickSteps : Tick(d)
    \/ \E r \in Requests, i \in Identities, a \in ValidAddresses : Receive(r, i, a)
    \/ \E r \in Requests : TryClaimCheck(r)
    \/ \E r \in Requests : TryClaimInsert(r)
    \/ \E r \in Requests, ok \in BOOLEAN : Fetch(r, ok)

SpecRL == InitRL /\ [][NextRL]_vars

(* Transaction construction on its own: one request task, the node's list   *)
(* and the configured amount drawn from the sets below.                     *)

\* amounts a configuration file can hold, up to the top of the u64 range
SelectAmounts ==
    { u64(1000), u64(DEFAULT_AMOUNT_PER_CLAIM), <<9, 0, 0>>,
      wide_sub(U64_MAX, u64(5000)), wide_sub(U64_MAX, u64(1000)) }

UtxoAmounts ==
    { u64(1000), u64(50000000), u64(100004000), u64(100004999), u64(100005000),
      u64(500000000), <<10, 0, 0>>, U64_MAX }

SeqsUpTo(S, n) == UNION {[1..k -> S] : k \in 0..n}

InitSelect ==
    /\ InitCommon
    /\ nodeUp = TRUE
    /\ amount_per_claim \in SelectAmounts
    /\ \E amts \in SeqsUpTo(UtxoAmounts, MaxUtxos) : nodeUtxos = MkUtxos(amts)

NextSelect ==
    \/ \E a \in ValidAddresses : Receive(1, "203.0.113.5", a)
    \/ TryClaimCheck(1)
    \/ TryClaimInsert(1)
    \/ \E ok \in BOOLEAN : Fetch(1, ok)
    \/ \E signed, overflow_checks \in BOOLEAN : Build(1, signed, overflow_checks)
    \/ NodeAccept(1)
    \/ \E ok \in BOOLEAN : Submit(1, ok)

SpecSelect == InitSelect /\ [][NextSelect]_vars

(* Paying claims under the fine clock: the faucet is funded, the node       *)
(* answers every fetch, and a submission is accepted or refused.            *)

InitPay ==
    /\ InitCommon
    /\ nodeUp = TRUE
    /\ amount_per_claim = u64(DEFAULT_AMOUNT_PER_CLAIM)
    /\ nodeUtxos = MkUtxos(<<u64(500000000), u64(400000000)>>)

NextPay ==
    \/ \E d \in TickSteps : Tick(d)
    \/ \E r \in Requests, i \in Identities, a \in ValidAddresses : Receive(r, i, a)
    \/ \E r \in Requests : TryClaimCheck(r)
    \/ \E r \in Requests : TryClaimInsert(r)
    \/ \E r \in Requests : Fetch(r, TRUE)
    \/ \E r \in Requests, overflow_checks \in BOOLEAN : Build(r, TRUE, overflow_checks)
    \/ \E r \in Requests : NodeAccept(r)
    \/ \E r \in Requests, ok \in BOOLEAN : Submit(r, ok)

SpecPay == InitPay /\ [][NextPay]_vars

(* The handler with callers that may disconnect while their claim is in    *)
(* flight, against a node that may stop answering at any time.              *)

NextCancel ==
    \/ NodeToggle
    \/ \E d \in CoarseSteps : Tick(d)
    \/ \E r \in Requests, i \in Identities, a \in ValidAddresses : Receive(r, i, a)
    \/ \E r \in Requests : TryClaimCheck(r)
    \/ \E r \in Requests : TryClaimInsert(r)
    \/ \E r \in Requests, ok \in BOOLEAN : Fetch(r, ok)
    \/ \E r \in Requests, signed, overflow_checks \in BOOLEAN :
          Build(r, signed, overflow_checks)
    \/ \E r \in Requests : NodeAccept(r)
    \/ \E r \in Requests, ok \in BOOLEAN : Submit(r, ok)
    \/ \E r \in Requests : Cancel(r)

SpecCancel == Init /\ [][NextCancel]_vars

(* ============================ properties =============================== *)

InputSet(tx) == {tx.inputs[k].previous_outpoint : k \in 1..Len(tx.inputs)}

\* the mathematical sum of the amounts of the entries of list
RECURSIVE SumAmounts(_)
SumAmounts(list) ==
    IF list = <<>> THEN ZERO ELSE wide_add(Head(list).amount, SumAmounts(Tail(list)))

\* whether the amounts of the entries of list add up to at least x
SumAtLeast(list, x) == le(x, SumAmounts(list))

\* amount + fee for k inputs, as the specification states it
Needed(k) == wide_add(amount_per_claim, u64((k + 1) * 2000))

\* a mathematical value held to the u64 range, and reduced modulo 2^64
Capped(x) == IF lt(U64_MAX, x) THEN U64_MAX ELSE x

Wrapped(x) == IF lt(U64_MAX, x) THEN wide_sub(x, TWO_64) ELSE x

(* C1: at most one claim at a time is between its UTXO fetch and the end of *)
(* its submission (the wallet spend path is exclusive).                     *)
C1_SpendPathExclusive ==
    Cardinality({r \in Requests : pc[r] \in {"build", "submit"}}) <= 1

(* C2: two claims of different identities that are in flight together have  *)
(* selected disjoint sets of UTXOs as inputs.                                *)
C2_DisjointInputs ==
    \A r1, r2 \in Requests :
        (r1 # r2 /\ ip[r1] # ip[r2] /\ pc[r1] = "submit" /\ pc[r2] = "submit")
        => InputSet(built[r1].tx) \cap InputSet(built[r2].tx) = {}

(* C3: try_claim is an indivisible check-and-set.  A call is admitted only  *)
(* if no call of the same identity was admitted less than one cooldown      *)
(* before, however the calls interleave; and a call is rejected only        *)
(* because its own identity was admitted less than one cooldown before,     *)
(* never because of another identity.                                       *)
C3_TryClaimIndivisible ==
    [][\A r \in Requests :
          /\ (pc[r] = "insert" /\ pc'[r] # "insert")
             => (lastAdmit[ip[r]] = NoEntry
                 \/ now - lastAdmit[ip[r]] >= claim_interval_seconds)
          /\ (pc[r] = "guard" /\ pc'[r] # "guard" /\ response'[r].status = 429)
             => (lastAdmit[ip[r]] # NoEntry
                 /\ now - lastAdmit[ip[r]] < claim_interval_seconds)]_vars

\* two calls of one identity at the same instant: one admitted, one rejected
C3_Witness ==
    \E r1, r2 \in Requests :
        /\ r1 # r2 /\ ip[r1] = ip[r2]
        /\ pc[r1] = "fetch" /\ lastAdmit[ip[r1]] = now
        /\ pc[r2] = "done" /\ response[r2].status = 429

(* C4: a try_claim of identity X made at time t' after the last admitted    *)
(* try_claim of X at time t returns false if t' - t is less than the        *)
(* cooldown and true if it is at least the cooldown; with no admitted call  *)
(* before, it returns true.                                                 *)
C4_CooldownDecides ==
    [][\A r \in Requests :
          (pc[r] = "guard" /\ pc'[r] # "guard")
          => /\ (response'[r].status = 429)
                <=> (lastAdmit[ip[r]] # NoEntry /\ now - lastAdmit[ip[r]] < 3600)
             /\ (pc'[r] = "insert")
                <=> (lastAdmit[ip[r]] = NoEntry \/ now - lastAdmit[ip[r]] >= 3600)]_vars

\* an identity admitted again at t = 3601 while a rejected call of it is
\* still on record
C4_Witness ==
    \E r1, r2 \in Requests :
        /\ r1 # r2 /\ ip[r1] = ip[r2]
        /\ pc[r1] = "fetch" /\ lastAdmit[ip[r1]] = 3601 /\ now = 3601
        /\ pc[r2] = "done" /\ response[r2].status = 429

(* C5: the rate-limit map is written exactly when a try_claim returns true: *)
(* a rejected call leaves the map as it was, an admitted call sets its own  *)
(* identity's timestamp to the current time and nothing else, nothing else  *)
(* writes the map, and no entry is ever removed.                            *)
C5_MapWrittenIffAdmitted ==
    [][/\ \A r \in Requests :
            (pc[r] = "guard" /\ response'[r].status = 429) => claims' = claims
       /\ \A r \in Requests :
            (pc[r] = "insert" /\ pc'[r] # "insert")
            => claims' = [claims EXCEPT ![ip[r]] = now]
       /\ (claims' # claims)
            => \E r \in Requests : pc[r] = "insert" /\ pc'[r] # "insert"
       /\ \A i \in Identities : claims[i] # NoEntry => claims'[i] # NoEntry]_vars

\* a rejected call on record whose identity still has its old timestamp,
\* while the other identity has an entry too
C5_Witness ==
    \E r \in Requests :
        /\ pc[r] = "done" /\ response[r].status = 429
        /\ claims[ip[r]] # NoEntry /\ claims[ip[r]] < now
        /\ \E i \in Identities : i # ip[r] /\ claims[i] # NoEntry

(* C6: a claim whose address is invalid ends as InvalidAddress without      *)
(* reaching the guard, and handling it leaves the rate-limit map unchanged. *)
InvalidAddressEnds ==
    \A r \in Requests :
        (pc[r] # "idle" /\ address[r] \notin ValidAddresses)
        => /\ pc[r] = "done"
           /\ response[r] = ErrResponse(400, "InvalidAddress")

C6_InvalidAddressNoRateLimit ==
    [][/\ InvalidAddressEnds'
       /\ \A r \in Requests :
            (address'[r] \notin ValidAddresses
             /\ <<pc[r], ip[r], address[r], response[r]>>
                # <<pc'[r], ip'[r], address'[r], response'[r]>>)
            => <<claims, mutex_owner, lastAdmit>>' = <<claims, mutex_owner, lastAdmit>>]_vars

\* an identity answered InvalidAddress and admitted with a valid address
C6_Witness ==
    \E r1, r2 \in Requests :
        /\ r1 # r2 /\ ip[r1] = ip[r2]
        /\ pc[r1] = "done" /\ response[r1].status = 400
        /\ pc[r2] = "fetch" /\ lastAdmit[ip[r2]] = now

(* C7: a claim answered InvalidAddress or RateLimited has made no wallet    *)
(* call in its whole execution: no UTXO fetch, no signing, no submission.   *)
C7_UserErrorsNeverTouchWallet ==
    \A r \in Requests :
        response[r].status \in {400, 429}
        => walletOps[r] = {} /\ utxos[r] = <<>> /\ built[r] = NoBuild

\* a rate-limited claim beside one that did reach the node
C7_Witness ==
    \E r1, r2 \in Requests :
        /\ pc[r1] = "done" /\ response[r1].status = 429 /\ walletOps[r1] = {}
        /\ "submit" \in walletOps[r2]

(* C8: a successful selection is a prefix of the fetched list, covers       *)
(* amount + fee for its length, and the prefix one shorter does not cover   *)
(* amount + fee for its own length.                                         *)
C8_SelectionPrefixMinimal ==
    \A r \in Requests :
        built[r].selected_ok
        => LET k == Len(built[r].selected)
           IN  /\ k >= 1 /\ k <= Len(utxos[r])
               /\ built[r].selected = SubSeq(utxos[r], 1, k)
               /\ SumAtLeast(built[r].selected, Needed(k))
               /\ ~SumAtLeast(SubSeq(utxos[r], 1, k - 1), Needed(k - 1))

\* no prefix of the list covers amount + fee for its length
Exhausted(list) ==
    \A k \in 1..Len(list) : ~SumAtLeast(SubSeq(list, 1, k), Needed(k))

\* the request got the node's list and its handler has run to its end
FetchedAndDone(r) ==
    /\ pc[r] \in {"done", "panicked"}
    /\ "fetch" \in walletOps[r]
    /\ response[r].error # "NodeUnavailable"

(* C9: whenever the whole list is consumed without reaching amount + fee,   *)
(* the empty list included, the claim fails with InsufficientFunds{have =   *)
(* sum of all amounts, need = amount + fee(n)} and nothing is signed or     *)
(* submitted.                                                               *)
C9_InsufficientFundsAlways ==
    \A r \in Requests :
        (FetchedAndDone(r) /\ Exhausted(utxos[r]))
        => /\ response[r] = FundsResponse(SumAmounts(utxos[r]), Needed(Len(utxos[r])))
           /\ walletOps[r] = {"fetch"}

(* C10: every assembled transaction obeys the change-dust law.  With        *)
(* residual = total_in - amount - fee: below the dust threshold there is    *)
(* one output, the destination; otherwise there are two, the destination    *)
(* and then a change output to the faucet of exactly the residual; so the   *)
(* change is 0 or at least the dust threshold.                              *)
C10_ChangeDustLaw ==
    \A r \in Requests :
        built[r].selected_ok
        => LET need == Needed(Len(built[r].selected))
               tot == built[r].total_in
               outs == built[r].tx.outputs
               dest == [value |-> amount_per_claim, script |-> address[r]]
           IN  /\ IF lt(tot, need) \/ lt(wide_sub(tot, need), u64(1000))
                  THEN outs = <<dest>>
                  ELSE outs = <<dest, [value |-> wide_sub(tot, need),
                                       script |-> "faucet_address"]>>
               /\ built[r].change = ZERO \/ le(u64(1000), built[r].change)

\* request r makes one of the wallet calls in this step
Calls(r, op, at) == pc[r] = at /\ op \in walletOps'[r]

(* C11: an admitted claim that fails at any stage (UTXO fetch, funds,       *)
(* signing, submission) ends in that very step: it makes at most one UTXO   *)
(* fetch, one signing attempt and one submission attempt, a claim that has  *)
(* ended (answered, or panicked) makes no further call, and nothing it held *)
(* keeps a later claim from the spend path.                                 *)
C11_FailureIsTerminalNoRetry ==
    [][\A r \in Requests :
          /\ (pc[r] \in {"fetch", "build", "submit"} /\ response'[r].status = 500)
             => pc'[r] = "done"
          /\ Calls(r, "fetch", "fetch") => "fetch" \notin walletOps[r]
          /\ Calls(r, "sign", "build") => "sign" \notin walletOps[r]
          /\ Calls(r, "submit", "submit") => "submit" \notin walletOps[r]
          /\ (pc[r] \in {"done", "panicked"} /\ walletOps'[r] # walletOps[r])
             => walletOps'[r] = {}
          /\ pc'[r] \in {"done", "panicked"} => mutex_owner' # r]_vars

\* a claim failed at submission, after one call of each kind, and another
\* claim is in the spend path
C11_Witness ==
    \E r1, r2 \in Requests :
        /\ pc[r1] = "done" /\ response[r1].error = "SubmissionFailure"
        /\ walletOps[r1] = {"fetch", "sign", "submit"}
        /\ pc[r2] \in {"build", "submit"}

\* the number a string of decimal digits denotes
RECURSIVE IntOf(_)
IntOf(ds) ==
    IF ds = <<>> THEN 0
    ELSE 10 * IntOf(SubSeq(ds, 1, Len(ds) - 1)) + ds[Len(ds)]

\* the u64 a string of at most 20 decimal digits denotes
DecimalValue(ds) ==
    LET n == Len(ds)
        from(k) == IF k < 1 THEN 1 ELSE k
        part(a, b) == IF b < 1 THEN 0 ELSE IntOf(SubSeq(ds, from(a), b))
    IN  <<part(n - 19, n - 18), part(n - 17, n - 9), part(n - 8, n)>>

\* the body of a 200 answer matches the transaction the request built
SuccessBody(r) ==
    /\ response[r].transaction_id = TxId(built[r].tx)
    /\ response[r].amount_kas # <<>>
    /\ DecimalValue(response[r].amount_kas) = amount_per_claim
    /\ response[r].next_claim_seconds = claim_interval_seconds

(* C13: a finished request has exactly one outcome, fixed by the first      *)
(* stage that failed: 400 for an address that does not parse (nothing else  *)
(* was tried), 429 for a rate-limited one (no wallet call was made), 500    *)
(* for a node, no-UTXO, funds, signing or submission error (with exactly    *)
(* the calls up to that stage made), and 200 only after the node accepted   *)
(* the submission, carrying its transaction id, amount_per_claim and the    *)
(* claim interval.                                                          *)
C13_OneOutcomePerRequest ==
    \A r \in Requests :
        pc[r] \in {"done", "panicked"} =>
            LET e == response[r].error
                st == response[r].status
            IN  /\ st \in {200, 400, 429, 500}
                /\ (st = 400) <=> ~address_try_into(address[r])
                /\ (st = 400) <=> (e = "InvalidAddress")
                /\ (st = 429) <=> (e = "RateLimited")
                /\ (st = 500) <=> (e \in {"NodeUnavailable", "NoUtxos", "InsufficientFunds",
                                         "SigningFailure", "SubmissionFailure"})
                /\ st \in {400, 429} => walletOps[r] = {}
                /\ e \in {"NodeUnavailable", "NoUtxos", "InsufficientFunds"}
                      => walletOps[r] = {"fetch"}
                /\ e = "SigningFailure" => walletOps[r] = {"fetch", "sign"}
                /\ e = "SubmissionFailure" => walletOps[r] = {"fetch", "sign", "submit"}
                /\ st # 200 => response[r].transaction_id = NoResponse.transaction_id
                /\ (st = 200) <=> (e = NoResponse.error)
                /\ st = 200 => /\ walletOps[r] = {"fetch", "sign", "submit"}
                               /\ built[r].tx \in nodeTxs
                               /\ SuccessBody(r)

(* C14: when a claim is cancelled at one of its awaits after admission, it  *)
(* holds no lock that a later claim needs, a transaction the node accepted  *)
(* stays accepted (then and ever after), and the cancelled claim makes no   *)
(* further call: in particular no second submission.                        *)
C14_CancelLeavesNothingBehind ==
    [][/\ nodeTxs \subseteq nodeTxs'
       /\ \A r \in Requests :
             /\ (pc[r] # "cancelled" /\ pc'[r] = "cancelled")
                => mutex_owner' # r
             /\ pc[r] = "cancelled"
                => (walletOps'[r] = walletOps[r] \/ walletOps'[r] = {})
             /\ Calls(r, "submit", "submit") => "submit" \notin walletOps[r]]_vars

\* a claim was cancelled after the node took its transaction, and a later
\* claim has been paid
C14_Witness ==
    \E r1, r2 \in Requests :
        /\ pc[r1] = "cancelled" /\ "submit" \in walletOps[r1]
        /\ ip[r2] = ip[r1]
        /\ built[r1].tx \in nodeTxs
        /\ pc[r2] = "done" /\ response[r2].status = 200
        /\ now >= claim_interval_seconds

(* C15: with the node's list [500_000_000, 400_000_000] and                 *)
(* amount_per_claim = 100_000_000, the transaction built selects the first  *)
(* UTXO only, with fee 4000 and change 399_996_000: one input, and two      *)
(* outputs, 100_000_000 to the destination first and the change second.     *)
C15_ScenarioOneInputTwoOutputs ==
    \A r \in Requests :
        (/\ built[r].selected_ok
         /\ utxos[r] = MkUtxos(<<u64(500000000), u64(400000000)>>)
         /\ amount_per_claim = u64(100000000))
        => /\ built[r].selected = <<[outpoint |-> 1, amount |-> u64(500000000)]>>
           /\ built[r].total_in = u64(500000000)
           /\ built[r].fee = u64(4000)
           /\ built[r].change = u64(399996000)
           /\ Len(built[r].tx.inputs) = 1
           /\ built[r].tx.inputs[1].previous_outpoint = 1
           /\ built[r].tx.outputs =
                 <<[value |-> u64(100000000), script |-> address[r]],
                   [value |-> u64(399996000), script |-> "faucet_address"]>>

\* the scenario's transaction was built, signed and accepted by the node
C15_Witness ==
    \E r \in Requests :
        /\ built[r].selected_ok
        /\ utxos[r] = MkUtxos(<<u64(500000000), u64(400000000)>>)
        /\ amount_per_claim = u64(100000000)
        /\ built[r].tx \in nodeTxs
        /\ Len(built[r].tx.outputs) = 2

(* C16: the fee for n selected inputs is (n + 1) * 2000 for every n the     *)
(* selection reaches, strictly increasing in n, and it is one and the same  *)
(* value in the loop's stopping test (no shorter prefix passed the test     *)
(* with its fee, and a loop that stopped early passes the sufficiency check *)
(* and is not refused), in the sufficiency check (the need reported on      *)
(* refusal is amount + fee as a u64) and in the change (amount + fee +      *)
(* change makes up total_in as a u64, unless the change was dust).          *)
C16_FeeLinearAndShared ==
    \A r \in Requests :
        built[r].selected # <<>>
        => LET k == Len(built[r].selected)
               tot == built[r].total_in
           IN  /\ built[r].fee = u64((k + 1) * 2000)
               /\ \A n \in 0..k : /\ fee_for(n) = u64((n + 1) * 2000)
                                  /\ lt(fee_for(n), fee_for(n + 1))
               /\ \A j \in 1..(k - 1) :
                     lt(Capped(SumAmounts(SubSeq(built[r].selected, 1, j))),
                        Capped(Needed(j)))
               /\ k < Len(utxos[r])
                  => /\ ~lt(tot, Capped(Needed(k)))
                     /\ response[r].error # "InsufficientFunds"
               /\ response[r].error = "InsufficientFunds"
                  => /\ lt(tot, Capped(Needed(k)))
                     /\ response[r].need = Wrapped(Needed(k))
               /\ built[r].selected_ok
                  => /\ ~lt(tot, Capped(Needed(k)))
                     /\ \/ built[r].change = ZERO
                        \/ Wrapped(wide_add(Needed(k), built[r].change)) = tot

\* the loop stopped at the second of three UTXOs, with the fee for two
\* inputs
C16_Witness ==
    \E r \in Requests :
        /\ built[r].selected_ok /\ Len(built[r].selected) = 2 /\ Len(utxos[r]) = 3
        /\ built[r].fee = u64(6000) /\ lt(ZERO, built[r].change)

\* a submit_transaction call was made for the request in slot r
Submitted(r) == "submit" \in walletOps[r]

(* C17: a transaction is submitted only for a request whose try_claim       *)
(* returned true, and two requests of one identity that both reached        *)
(* submission (accepted by the node or not) were admitted at least one      *)
(* cooldown apart.                                                          *)
C17_SubmissionsOneCooldownApart ==
    /\ \A r \in Requests :
          (pc[r] = "submit" \/ Submitted(r))
          => /\ admitAt[r] # NoEntry /\ admitAt[r] <= now
             /\ admitAt[r] <= lastAdmit[ip[r]]
    /\ \A r1, r2 \in Requests :
          (r1 # r2 /\ ip[r1] = ip[r2] /\ Submitted(r1) /\ Submitted(r2))
          => \/ admitAt[r1] - admitAt[r2] >= claim_interval_seconds
             \/ admitAt[r2] - admitAt[r1] >= claim_interval_seconds

\* two submissions of one identity, the second admitted exactly one cooldown
\* after the first, one accepted and one refused by the node
C17_Witness ==
    \E r1, r2 \in Requests :
        /\ r1 # r2 /\ ip[r1] = ip[r2] /\ Submitted(r1) /\ Submitted(r2)
        /\ admitAt[r2] - admitAt[r1] = claim_interval_seconds
        /\ response[r1].status = 200 /\ response[r2].error = "SubmissionFailure"

\* the request in slot r was admitted and then failed: answered 500, or its
\* task panicked
FailedAfterAdmission(r) ==
    /\ \/ pc[r] = "done" /\ response[r].status = 500
       \/ pc[r] = "panicked"
    /\ admitAt[r] # NoEntry

(* C18: the cooldown is spent at admission.  When an admitted claim fails   *)
(* downstream (node error, no UTXOs, insufficient funds, signing or         *)
(* submission failure) the limiter's map is left as it is, holding the      *)
(* identity's admission time; and while less than one cooldown has passed   *)
(* since that admission no request of the same identity gets past           *)
(* try_claim.                                                               *)
C18_CooldownSpentAtAdmission ==
    [][\A r \in Requests :
          /\ (/\ pc[r] \in {"fetch", "build", "submit"}
              /\ response'[r].status = 500 \/ pc'[r] = "panicked")
             => /\ claims' = claims
                /\ claims[ip[r]] # NoEntry
                /\ claims[ip[r]] >= admitAt[r]
          /\ FailedAfterAdmission(r)
             => /\ claims[ip[r]] # NoEntry /\ claims[ip[r]] >= admitAt[r]
                /\ \A r2 \in Requests :
                      (/\ ip[r2] = ip[r] /\ pc[r2] = "guard" /\ pc'[r2] # "guard"
                       /\ now - admitAt[r] < claim_interval_seconds)
                      => /\ pc'[r2] = "done"
                         /\ response'[r2].status = 429]_vars

\* a claim was refused for insufficient funds, nothing was paid, and a
\* second request of the same identity within the cooldown was rate-limited
C18_Witness ==
    \E r1, r2 \in Requests :
        /\ FailedAfterAdmission(r1) /\ response[r1].error = "InsufficientFunds"
        /\ ip[r2] = ip[r1] /\ pc[r2] = "done" /\ response[r2].status = 429
        /\ now - admitAt[r1] < claim_interval_seconds
        /\ nodeTxs = {}

\* the values of the outputs of the transaction built for r
OutputsValue(r) ==
    LET outs == built[r].tx.outputs
    IN  wide_add(outs[1].value, IF Len(outs) = 2 THEN outs[2].value ELSE ZERO)

(* C19: for every transaction handed to the signer the destination output   *)
(* is the requested amount and the effective fee, the exact sum of the      *)
(* inputs minus the sum of the outputs, lies in [fee(n), fee(n) + dust) and *)
(* is fee(n) when there is a change output.                                 *)
C19_ValueConserved ==
    \A r \in Requests :
        built[r].selected_ok
        => LET sel == built[r].selected
               fee == u64((Len(sel) + 1) * 2000)
               spent == wide_add(OutputsValue(r), fee)
           IN  /\ built[r].tx.outputs[1].value = amount_per_claim
               /\ le(spent, SumAmounts(sel))
               /\ lt(SumAmounts(sel), wide_add(spent, u64(1000)))
               /\ Len(built[r].tx.outputs) = 2 => SumAmounts(sel) = spent

(* C20: whenever the sufficiency check passes, total_in is at least         *)
(* amount + fee in exact arithmetic, so total_in - amount - fee does not    *)
(* underflow, whether or not total_in or amount + fee saturated.            *)
C20_ChangeNeverUnderflows ==
    \A r \in Requests :
        (/\ built[r].selected # <<>>
         /\ ~lt(built[r].total_in, Capped(Needed(Len(built[r].selected)))))
        => /\ le(Needed(Len(built[r].selected)), built[r].total_in)
           /\ pc[r] # "panicked"

====
